---- MODULE Spec2Model ----
(***************************************************************************)
(* State-machine model of the LangGraph chatbot backend (src/backend.py):  *)
(* the calculator tool, the chat_node / tools graph, the SQLite checkpoint *)
(* store behind it, and the FastAPI endpoints that stream a chat turn,     *)
(* list and read threads and delete them.                                  *)
(*                                                                         *)
(* Text is a sequence of one-character strings, so that concatenation and  *)
(* str.split() are computed, not assumed.                                  *)
(***************************************************************************)
EXTENDS Integers, Sequences, FiniteSets, TLC

\* ------------------------------------------------------------------ bounds

\* thread ids a client may use (uuid4 strings in the program), in
\* ascending lexicographic order
ThreadsAsc == <<"t1", "t2">>

Threads == {ThreadsAsc[i] : i \in 1..Len(ThreadsAsc)}

\* Model -> Tool hops the model is allowed to ask for within one turn
MaxHops == 1

\* range of the calculator's numeric arguments
MaxNum == 3

\* the POST /chat calls of a run, in the order they are made
Calls == {1, 2}

Nums == (0 - MaxNum)..MaxNum

\* most words of a sample user message
MaxWords == 6

\* most messages of a sample stored conversation
MaxMsgs == 2

\* the operations the model may pass to the calculator
Operations == {"add", "sub", "mul", "div", "mod", ""}

NoThread == "none"

\* ------------------------------------------------------------ text helpers

RECURSIVE Concat(_)
\* "".join(parts): the parts of a sequence of texts, one after the other
Concat(parts) ==
    IF parts = <<>> THEN <<>> ELSE Head(parts) \o Concat(Tail(parts))

IsPrefix(s, t) ==
    /\ Len(s) <= Len(t)
    /\ SubSeq(t, 1, Len(s)) = s

\* --------------------------------------------------------------- messages

HumanMessage(content) ==
    [type |-> "human", content |-> content, tool_calls |-> <<>>, tool_call_id |-> ""]

AIMessage(content, tool_calls) ==
    [type |-> "ai", content |-> content, tool_calls |-> tool_calls, tool_call_id |-> ""]

ToolMessage(content, tool_call_id) ==
    [type |-> "tool", content |-> content, tool_calls |-> <<>>, tool_call_id |-> tool_call_id]

\* ------------------------------------------------------------- calculator

\* first_num / second_num for second_num # 0, kept exact as a reduced
\* fraction [num, den] with den > 0
Quotient(a, b) ==
    LET Abs(n) == IF n < 0 THEN 0 - n ELSE n
        Divides(d, n) == n % d = 0
        g  == CHOOSE d \in 1..(Abs(a) + Abs(b)) :
                  /\ Divides(d, Abs(a)) /\ Divides(d, Abs(b))
                  /\ \A e \in 1..(Abs(a) + Abs(b)) :
                         (Divides(e, Abs(a)) /\ Divides(e, Abs(b))) => e <= d
        sg == IF b < 0 THEN 0 - 1 ELSE 1
    IN  [num |-> (sg * a) \div g, den |-> (sg * b) \div g]

\* what the interpreter does with first_num / 0: ZeroDivisionError, which
\* the except clause turns into {"error": str(e)}
DivisionFault == [error |-> "float division by zero"]

\* the guard as it would be had the check been left out
ZeroGuardMissing(second_num) == FALSE

\* the guard of the div branch
ZeroGuard(second_num) == second_num = 0

calculator(first_num, second_num, operation) ==
    IF operation = "add" THEN [result |-> first_num + second_num]
    ELSE IF operation = "sub" THEN [result |-> first_num - second_num]
    ELSE IF operation = "mul" THEN [result |-> first_num * second_num]
    ELSE IF operation = "div" THEN
        IF ZeroGuard(second_num) THEN [error |-> "Division by zero"]
        ELSE IF second_num = 0 THEN DivisionFault
        ELSE [result |-> Quotient(first_num, second_num)]
    ELSE [error |-> "Unsupported operation '" \o operation \o "'"]

\* ------------------------------------------------------------------ tools

\* a tool-call request of an assistant message
ToolCall(id, name, args) == [id |-> id, name |-> name, args |-> args]

\* the text DuckDuckGoSearchRun returns for a query
search_tool(query) == <<"r">>

\* the content of the tool message the ToolNode builds from a tool's return
\* value: a dict is serialised, a string is passed on
ToolContent(name, args) ==
    IF name = "calculator"
    THEN LET r == calculator(args[1], args[2], args[3])
         IN  IF "error" \in DOMAIN r THEN <<"error", r.error>>
             ELSE <<"result", ToString(r.result)>>
    ELSE search_tool(args[1])

RECURSIVE RunTools(_)
\* one tool message per tool call, in call order, tagged with the call's id
RunTools(calls) ==
    IF calls = <<>> THEN <<>>
    ELSE <<ToolMessage(ToolContent(Head(calls).name, Head(calls).args), Head(calls).id)>>
            \o RunTools(Tail(calls))

\* tool_node: runs the tool calls of the last assistant message
tool_node(messages) == RunTools(messages[Len(messages)].tool_calls)

\* -------------------------------------------------------------------- llm

\* What llm_with_tools.invoke may answer: the streamed chunks of the
\* response and the tool calls it carries.  A final answer in two chunks, a
\* bare tool call, and a tool call announced with text.
LLMResponses ==
    { [chunks |-> << <<"a">>, <<"b">> >>, tool_calls |-> <<>>],
      [chunks |-> << <<>> >>,
       tool_calls |-> << ToolCall("call_1", "calculator", <<1, 0, "div">>) >>],
      [chunks |-> << <<"c">>, <<>> >>,
       tool_calls |-> << ToolCall("call_2", "search", << <<"q">> >>) >>] }

\* the message the client sends in each chat call
UserMessages == [c \in Calls |-> IF c = 1 THEN <<"x">> ELSE <<"y", " ", "z">>]

\* ------------------------------------------------------------------ state

VARIABLES
    db,             \* chatbot.db: table name -> thread id -> rows, oldest first
    created,        \* thread ids handed out by POST /threads and not used since
    pc,             \* where each chat call is
    thread_id,      \* the thread of each chat call
    message,        \* request.message of each chat call
    state,          \* the graph's messages channel of each running call
    output,         \* the messages returned by the node that just ran
    node,           \* the node that just ran
    queue,          \* stream items of that node not yet seen by the generator
    hops,           \* tool hops taken by each call
    full_response,  \* the generator's accumulator
    events,         \* the events each call has sent to its client
    deleted,        \* the latest DELETE of the thread answered success and no
                    \* chat call has written to the thread since
    clean,          \* since the call began no other call ran on its thread
                    \* while it ran, and no DELETE removed rows of its thread
    loop,           \* the call the event loop is running, 0 when it is free
    calc_in,        \* calculator arguments
    calc_out,       \* calculator return value
    listing         \* the threads GET /threads returned

vars == <<db, created, pc, thread_id, message, state, output, node, queue, hops,
          full_response, events, deleted, clean, loop, calc_in, calc_out,
          listing>>

callVars == <<pc, thread_id, message, state, output, node, queue, hops,
              full_response, events, clean>>

\* the variables of the functions that are checked on their own
pureVars == <<calc_in, calc_out, listing>>

\* ------------------------------------------------------- checkpoint store

\* The program reads a thread's latest checkpoint only (get_state, stream)
\* and never its pending writes, so a table is kept as what decides those
\* reads and the deletes: for each thread id the latest row of checkpoints,
\* and for writes one row per task that has stored writes.

\* the tables SqliteSaver creates and writes to
StoreTables == {"checkpoints", "writes"}

\* SqliteSaver.setup: CREATE TABLE IF NOT EXISTS for each of its tables
setup(d) ==
    [tb \in (DOMAIN d) \cup StoreTables |->
        IF tb \in DOMAIN d THEN d[tb] ELSE [t \in Threads |-> {}]]

\* the rows of a table that carry a thread id
Rows(d, table, t) == IF table \in DOMAIN d THEN d[table][t] ELSE {}

\* a put that ignores the thread id of the config: the row goes to every
\* thread
put_shared(d, t, messages, next) ==
    [d EXCEPT !["checkpoints"] =
        [u \in Threads |-> {[messages |-> messages, next |-> next]}]]

\* checkpointer.put: a newer row in checkpoints
put(d, t, messages, next) ==
    [d EXCEPT !["checkpoints"][t] = {[messages |-> messages, next |-> next]}]

\* checkpointer.put_writes: the pending writes of a finished task
put_writes(d, t, task) ==
    [d EXCEPT !["writes"][t] = @ \cup {[task |-> task]}]

\* chatbot.get_state(config).values: the latest checkpoint of the thread
get_state(d, t) ==
    LET rows == Rows(d, "checkpoints", t)
    IN  IF rows = {} THEN [messages |-> <<>>, next |-> "none"]
        ELSE CHOOSE row \in rows : TRUE

\* a messages channel without a reducer: the update replaces the value
ReplaceMessages(left, right) == right

\* the add_messages reducer: new messages get fresh ids and are appended
add_messages(left, right) == left \o right

\* ---------------------------------------------------------------- helpers

\* Python truthiness of a str
Truthy(content) == content # <<>>

Whitespace == {" "}

RECURSIVE SplitFrom(_, _)
\* str.split(): the maximal runs of non-whitespace characters, in order
SplitFrom(s, word) ==
    IF s = <<>> THEN (IF word = <<>> THEN <<>> ELSE <<word>>)
    ELSE IF Head(s) \in Whitespace
         THEN (IF word = <<>> THEN <<>> ELSE <<word>>) \o SplitFrom(Tail(s), <<>>)
         ELSE SplitFrom(Tail(s), Append(word, Head(s)))

split(s) == SplitFrom(s, <<>>)

RECURSIVE join(_, _)
\* sep.join(words)
join(sep, words) ==
    IF words = <<>> THEN <<>>
    ELSE IF Len(words) = 1 THEN Head(words)
    ELSE Head(words) \o sep \o join(sep, Tail(words))

\* a slice that keeps one word more
TakeOneMore(words, n) == SubSeq(words, 1, IF Len(words) < n + 1 THEN Len(words) ELSE n + 1)

\* words[:n]
Take(words, n) == SubSeq(words, 1, IF Len(words) < n THEN Len(words) ELSE n)

\* the number of words of the first message a thread's name keeps
NameWords == 5

NewChat == <<"N", "e", "w", " ", "C", "h", "a", "t">>

Ellipsis == <<".", ".", ".">>

\* a listing of every thread id once the table exists
retrieve_all_threads_any(d) == {t \in Threads : "checkpoints" \in DOMAIN d}

\* all thread ids that have a checkpoint
retrieve_all_threads(d) == {t \in Threads : Rows(d, "checkpoints", t) # {}}

\* the messages of the thread's latest checkpoint, [] when there is none
load_conversation(d, t) == get_state(d, t).messages

\* the words of a thread name and its ellipsis
NameOf(content) ==
    LET words == split(content)
    IN  join(<<" ">>, Take(words, NameWords))
            \o (IF Len(words) > NameWords THEN Ellipsis ELSE <<>>)

RECURSIVE get_thread_name_latest(_)
\* a name taken from the latest user message
get_thread_name_latest(messages) ==
    IF messages = <<>> THEN NewChat
    ELSE IF messages[Len(messages)].type = "human"
         THEN NameOf(messages[Len(messages)].content)
         ELSE get_thread_name_latest(SubSeq(messages, 1, Len(messages) - 1))

RECURSIVE get_thread_name(_)
\* the name of a thread: from the first HumanMessage of its messages
get_thread_name(messages) ==
    IF messages = <<>> THEN NewChat
    ELSE IF Head(messages).type = "human"
         THEN NameOf(Head(messages).content)
         ELSE get_thread_name(Tail(messages))

\* a test that lets every assistant message into the history view
ShownAssistantAnyContent(msg) == msg.type = "ai"

\* the test that lets an assistant message into the history view
ShownAssistant(msg) == msg.type = "ai" /\ Truthy(msg.content)

RECURSIVE format_messages(_)
\* the loop of get_thread_messages over the loaded messages
format_messages(messages) ==
    IF messages = <<>> THEN <<>>
    ELSE LET msg == Head(messages)
             rest == format_messages(Tail(messages))
         IN  IF msg.type = "human"
             THEN <<[role |-> "user", content |-> msg.content]>> \o rest
             ELSE IF ShownAssistant(msg)
                  THEN <<[role |-> "assistant", content |-> msg.content]>> \o rest
                  ELSE rest

\* GET /threads/{thread_id}/messages
get_thread_messages(d, t) == format_messages(load_conversation(d, t))

RECURSIVE ThreadsInfo(_, _)
\* GET /threads: id and name of every stored thread, by thread id descending
ThreadsInfo(d, i) ==
    IF i = 0 THEN <<>>
    ELSE (IF ThreadsAsc[i] \in retrieve_all_threads(d)
          THEN <<[thread_id |-> ThreadsAsc[i],
                  name |-> get_thread_name(load_conversation(d, ThreadsAsc[i]))]>>
          ELSE <<>>) \o ThreadsInfo(d, i - 1)

get_threads(d) == ThreadsInfo(d, Len(ThreadsAsc))

\* ---------------------------------------------------------- delete_thread

\* a table list whose first name is not the store's
tablesMisnamed == <<"checkpoint", "checkpoint_writes", "checkpoint_blobs">>

\* the tables delete_thread clears
tables == <<"checkpoints", "checkpoint_writes", "checkpoint_blobs">>

\* a storage fault other than a missing table: none, raised by the first
\* DELETE statement that finds its table, or raised by conn.commit()
Faults == {"none", "statement", "commit"}

RECURSIVE DeleteLoopStrict(_, _, _, _)
\* a loop that lets "no such table" leave it like any other fault
DeleteLoopStrict(d, t, i, fault) ==
    IF i > Len(tables) THEN [db |-> d, success |-> fault # "commit"]
    ELSE IF tables[i] \notin DOMAIN d THEN [db |-> d, success |-> FALSE]
    ELSE IF fault = "statement" THEN [db |-> d, success |-> FALSE]
    ELSE DeleteLoopStrict([d EXCEPT ![tables[i]][t] = {}], t, i + 1, fault)

RECURSIVE DeleteLoop(_, _, _, _)
\* the for loop of delete_thread from the i-th table on, then the commit.
\* A missing table makes sqlite3 raise "no such table", which the loop
\* skips; any other fault leaves the loop and the function returns False.
\* The connection is the one every reader uses, so the rows a statement
\* removed are gone for them whether or not the commit is reached.
DeleteLoop(d, t, i, fault) ==
    IF i > Len(tables) THEN [db |-> d, success |-> fault # "commit"]
    ELSE IF tables[i] \notin DOMAIN d THEN DeleteLoop(d, t, i + 1, fault)
    ELSE IF fault = "statement" THEN [db |-> d, success |-> FALSE]
    ELSE DeleteLoop([d EXCEPT ![tables[i]][t] = {}], t, i + 1, fault)

\* delete_thread with DELETE statements that lack the WHERE clause: the
\* rows of every thread go
delete_thread_all(d, t, fault) ==
    LET r == DeleteLoop(d, t, 1, fault)
    IN  [db |-> [tb \in DOMAIN r.db |->
                    IF r.db[tb][t] = {} /\ \E i \in 1..Len(tables) : tables[i] = tb
                    THEN [u \in Threads |-> {}]
                    ELSE r.db[tb]],
         success |-> r.success]

delete_thread(d, t, fault) == DeleteLoop(d, t, 1, fault)

\* ------------------------------------------------------------------- chat

\* a condition that ends the run whatever the assistant message asks for
tools_condition_never(messages) == "end"

\* langgraph.prebuilt.tools_condition on the state chat_node left
tools_condition(messages) ==
    IF messages[Len(messages)].tool_calls # <<>> THEN "tools" ELSE "end"

\* edges that lead from tools to END
RouteToolsToEnd(n, messages) ==
    IF n = "chat_node" THEN tools_condition(messages) ELSE "end"

\* the edges of the graph: where a finished node leads
Route(n, messages) ==
    IF n = "chat_node" THEN tools_condition(messages) ELSE "chat_node"

RECURSIVE AsChunks(_)
\* the AIMessageChunk items the messages stream yields for a response
AsChunks(chunks) ==
    IF chunks = <<>> THEN <<>>
    ELSE <<AIMessage(Head(chunks), <<>>)>> \o AsChunks(Tail(chunks))

\* the test of generate_response on a stream item
IsChunk(item) == item.type = "ai" /\ Truthy(item.content)

RECURSIVE NextChunk(_)
\* the stream from its first item that passes the test on
NextChunk(items) ==
    IF items = <<>> \/ IsChunk(Head(items)) THEN items ELSE NextChunk(Tail(items))

\* an accumulator that keeps the latest chunk only
AccumulateLatest(full, content) == content

\* full_response += message_chunk.content
Accumulate(full, content) == full \o content

Event(type, content, t) == [type |-> type, content |-> content, thread_id |-> t]

Active(c) == pc[c] \in {"chat_node", "stream", "tools"}

\* The server runs its handlers on one event loop and chatbot.stream is
\* synchronous: a chat call keeps the loop from the moment it resumes until
\* its generator yields an event; only then may another handler run.
Runnable(c) == loop = 0 \/ loop = c

\* an except clause that could run again once the stream has ended
RaisesAfterEnd(c) == pc[c] # "idle"

\* the try block of generate_response: an exception of the graph is caught
\* while the for loop runs
Raises(c) == Active(c)

\* the messages of an exception
ErrorText == <<"e">>

\* calc_out before the calculator has returned
Pending == [pending |-> TRUE]

\* listing before GET /threads has returned
NotListed == <<Pending>>

Init ==
    /\ db = <<>>
    /\ created = {}
    /\ pc = [c \in Calls |-> "idle"]
    /\ thread_id = [c \in Calls |-> NoThread]
    /\ message = [c \in Calls |-> <<>>]
    /\ state = [c \in Calls |-> <<>>]
    /\ output = [c \in Calls |-> <<>>]
    /\ node = [c \in Calls |-> "none"]
    /\ queue = [c \in Calls |-> <<>>]
    /\ hops = [c \in Calls |-> 0]
    /\ full_response = [c \in Calls |-> <<>>]
    /\ events = [c \in Calls |-> <<>>]
    /\ deleted = [t \in Threads |-> FALSE]
    /\ clean = [c \in Calls |-> TRUE]
    /\ loop = 0
    /\ calc_in = <<0, 0, "add">>
    /\ calc_out = Pending
    /\ listing = NotListed

\* POST /chat up to the first step of chatbot.stream: the thread's latest
\* checkpoint is loaded, the user's message is added to it and the input
\* checkpoint is saved
chat_endpoint(c, t, m) ==
    /\ pc[c] = "idle"
    /\ loop = 0
    /\ \A k \in Calls : k < c => pc[k] # "idle"
    /\ LET d0 == setup(db)
           st == add_messages(load_conversation(d0, t), <<HumanMessage(m)>>)
       IN  /\ db' = put(d0, t, st, "chat_node")
           /\ state' = [state EXCEPT ![c] = st]
    /\ pc' = [pc EXCEPT ![c] = "chat_node"]
    /\ thread_id' = [thread_id EXCEPT ![c] = t]
    /\ message' = [message EXCEPT ![c] = m]
    /\ clean' = [k \in Calls |->
                    IF k = c THEN \A j \in Calls : ~(Active(j) /\ thread_id[j] = t)
                    ELSE IF Active(k) /\ thread_id[k] = t THEN FALSE
                    ELSE clean[k]]
    /\ deleted' = [deleted EXCEPT ![t] = FALSE]
    /\ loop' = c
    /\ created' = created \ {t}
    /\ UNCHANGED <<output, node, queue, hops, full_response, events, pureVars>>

\* chat_node: the model answers the messages of the state; its chunks enter
\* the messages stream
chat_node(c) ==
    /\ pc[c] = "chat_node"
    /\ Runnable(c)
    /\ loop' = c
    /\ \E resp \in LLMResponses :
        /\ resp.tool_calls # <<>> => hops[c] < MaxHops
        /\ output' = [output EXCEPT ![c] =
                        <<AIMessage(Concat(resp.chunks), resp.tool_calls)>>]
        /\ queue' = [queue EXCEPT ![c] = AsChunks(resp.chunks)]
    /\ node' = [node EXCEPT ![c] = "chat_node"]
    /\ pc' = [pc EXCEPT ![c] = "stream"]
    /\ UNCHANGED <<db, created, thread_id, message, state, hops, full_response,
                   events, deleted, clean, pureVars>>

\* the tools node: the tool calls of the last assistant message are run and
\* their tool messages enter the messages stream
tools(c) ==
    /\ pc[c] = "tools"
    /\ Runnable(c)
    /\ loop' = c
    /\ output' = [output EXCEPT ![c] = tool_node(state[c])]
    /\ queue' = [queue EXCEPT ![c] = tool_node(state[c])]
    /\ node' = [node EXCEPT ![c] = "tools"]
    /\ hops' = [hops EXCEPT ![c] = @ + 1]
    /\ pc' = [pc EXCEPT ![c] = "stream"]
    /\ UNCHANGED <<db, created, thread_id, message, state, full_response,
                   events, deleted, clean, pureVars>>

\* the for loop of generate_response up to its next yield: the stream items
\* that fail the test are passed over, the first assistant chunk with
\* content is sent and accumulated
generate_response(c) ==
    /\ pc[c] = "stream"
    /\ Runnable(c)
    /\ NextChunk(queue[c]) # <<>>
    /\ LET item == Head(NextChunk(queue[c]))
       IN  /\ events' = [events EXCEPT ![c] =
                    Append(@, Event("chunk", item.content, thread_id[c]))]
           /\ full_response' = [full_response EXCEPT ![c] =
                    Accumulate(@, item.content)]
    /\ loop' = 0
    /\ queue' = [queue EXCEPT ![c] = Tail(NextChunk(@))]
    /\ UNCHANGED <<db, created, pc, thread_id, message, state, output, node, hops,
                   deleted, clean, pureVars>>

\* the end of a graph step: the node's writes are stored, its messages are
\* added to the state, the checkpoint is saved and the next node is chosen.
\* The stream items left are passed over by the loop.  At END the for loop
\* is over and the complete event is sent.
after_tick(c) ==
    /\ pc[c] = "stream"
    /\ Runnable(c)
    /\ NextChunk(queue[c]) = <<>>
    /\ LET t == thread_id[c]
           st == add_messages(state[c], output[c])
           next == Route(node[c], st)
       IN  /\ db' = put(put_writes(db, t, node[c]), t, st, next)
           /\ deleted' = [deleted EXCEPT ![t] = FALSE]
           /\ IF next = "end"
              THEN /\ events' = [events EXCEPT ![c] =
                            Append(@, Event("complete", full_response[c], t))]
                   /\ pc' = [pc EXCEPT ![c] = "done"]
                   /\ state' = [state EXCEPT ![c] = <<>>]
                   /\ full_response' = [full_response EXCEPT ![c] = <<>>]
                   /\ hops' = [hops EXCEPT ![c] = 0]
                   /\ loop' = 0
              ELSE /\ pc' = [pc EXCEPT ![c] = next]
                   /\ state' = [state EXCEPT ![c] = st]
                   /\ loop' = c
                   /\ UNCHANGED <<events, full_response, hops>>
    /\ output' = [output EXCEPT ![c] = <<>>]
    /\ node' = [node EXCEPT ![c] = "none"]
    /\ queue' = [queue EXCEPT ![c] = <<>>]
    /\ UNCHANGED <<created, thread_id, message, clean, pureVars>>

\* the except clause of generate_response: the model, a tool or the store
\* raised while the graph ran; the error event ends the stream
generate_response_except(c) ==
    /\ Raises(c)
    /\ Runnable(c)
    /\ events' = [events EXCEPT ![c] = Append(@, Event("error", ErrorText, thread_id[c]))]
    /\ pc' = [pc EXCEPT ![c] = "done"]
    /\ state' = [state EXCEPT ![c] = <<>>]
    /\ output' = [output EXCEPT ![c] = <<>>]
    /\ queue' = [queue EXCEPT ![c] = <<>>]
    /\ node' = [node EXCEPT ![c] = "none"]
    /\ full_response' = [full_response EXCEPT ![c] = <<>>]
    /\ hops' = [hops EXCEPT ![c] = 0]
    /\ loop' = 0
    /\ UNCHANGED <<db, created, thread_id, message, deleted, clean, pureVars>>

\* a create_thread that saves an empty checkpoint for the new id
create_thread_saving ==
    /\ loop = 0
    /\ \E t \in Threads :
        /\ t \notin created
        /\ \A c \in Calls : thread_id[c] # t
        /\ ~deleted[t]
        /\ created' = created \cup {t}
        /\ db' = put(setup(db), t, <<>>, "none")
    /\ UNCHANGED <<callVars, deleted, loop, pureVars>>

\* POST /threads: a fresh uuid4, no id any client has used
create_thread ==
    /\ loop = 0
    /\ \E t \in Threads :
        /\ t \notin created
        /\ \A c \in Calls : thread_id[c] # t
        /\ ~deleted[t]
        /\ created' = created \cup {t}
    /\ UNCHANGED <<db, callVars, deleted, loop, pureVars>>

\* DELETE /threads/{thread_id}
delete_thread_endpoint(t, fault) ==
    /\ loop = 0
    /\ LET r == delete_thread(db, t, fault)
       IN  /\ db' = r.db
           /\ deleted' = [deleted EXCEPT ![t] = r.success]
    /\ clean' = [k \in Calls |->
                    clean[k] /\ (thread_id[k] # t \/ delete_thread(db, t, fault).db = db)]
    /\ UNCHANGED <<created, pc, thread_id, message, state, output, node, queue,
                   hops, full_response, events, loop, pureVars>>

\* GET /threads and GET /threads/{thread_id}/messages: the first use of the
\* checkpointer creates its tables; nothing else is written, and nothing at
\* all once the tables exist
read_endpoints ==
    /\ loop = 0
    /\ ~(StoreTables \subseteq DOMAIN db)
    /\ db' = setup(db)
    /\ UNCHANGED <<created, callVars, deleted, loop, pureVars>>

Next ==
    \/ \E c \in Calls, t \in Threads : chat_endpoint(c, t, UserMessages[c])
    \/ \E c \in Calls : chat_node(c)
    \/ \E c \in Calls : tools(c)
    \/ \E c \in Calls : generate_response(c)
    \/ \E c \in Calls : after_tick(c)
    \/ \E c \in Calls : generate_response_except(c)
    \/ create_thread
    \/ \E t \in Threads, fault \in Faults : delete_thread_endpoint(t, fault)
    \/ read_endpoints

Spec == Init /\ [][Next]_vars

\* chat calls alone: no exception, no DELETE, no other request
NextTurns ==
    \/ \E c \in Calls, t \in Threads : chat_endpoint(c, t, UserMessages[c])
    \/ \E c \in Calls : chat_node(c)
    \/ \E c \in Calls : tools(c)
    \/ \E c \in Calls : generate_response(c)
    \/ \E c \in Calls : after_tick(c)

SpecTurns == Init /\ [][NextTurns]_vars

\* chat calls and the exceptions that may end them
NextLive ==
    \/ NextTurns
    \/ \E c \in Calls : generate_response_except(c)

\* The server iterates the generator of a chat call for as long as it has
\* events to send, and chatbot.stream runs the graph step after step: a
\* step of a call that stays possible is taken.  Nothing makes an exception
\* happen, and nothing makes a client send a request.
Fairness ==
    \A c \in Calls :
        /\ WF_vars(chat_node(c))
        /\ WF_vars(tools(c))
        /\ WF_vars(generate_response(c))
        /\ WF_vars(after_tick(c))

SpecFair == Init /\ [][NextLive]_vars /\ Fairness

\* ------------------------------------------------- the calculator alone

\* every argument triple of the bounded ranges
InitCalc ==
    /\ db = <<>>
    /\ created = {}
    /\ pc = [c \in Calls |-> "idle"]
    /\ thread_id = [c \in Calls |-> NoThread]
    /\ message = [c \in Calls |-> <<>>]
    /\ state = [c \in Calls |-> <<>>]
    /\ output = [c \in Calls |-> <<>>]
    /\ node = [c \in Calls |-> "none"]
    /\ queue = [c \in Calls |-> <<>>]
    /\ hops = [c \in Calls |-> 0]
    /\ full_response = [c \in Calls |-> <<>>]
    /\ events = [c \in Calls |-> <<>>]
    /\ deleted = [t \in Threads |-> FALSE]
    /\ clean = [c \in Calls |-> TRUE]
    /\ loop = 0
    /\ calc_in \in Nums \X Nums \X Operations
    /\ calc_out = Pending
    /\ listing = NotListed

\* the tool is called with the arguments
calculator_call ==
    /\ calc_out = Pending
    /\ calc_out' = calculator(calc_in[1], calc_in[2], calc_in[3])
    /\ UNCHANGED <<db, created, callVars, deleted, loop, calc_in, listing>>

NextCalc == calculator_call

SpecCalc == InitCalc /\ [][NextCalc]_vars

\* ------------------------------------------------ the thread list alone

\* letters for the words of the sample messages
Alphabet == <<"a", "b", "c", "d", "e", "f", "g", "h">>

Word(i) == <<Alphabet[((i - 1) % Len(Alphabet)) + 1]>>

\* a text of k different words with sep between them
Sentence(k, sep) == join(sep, [i \in 1..k |-> Word(i)])

\* a user message of eleven words
FranceMessage ==
    <<"W", "h", "a", "t">> \o <<" ">>
      \o <<"i", "s">> \o <<" ">>
      \o <<"t", "h", "e">> \o <<" ">>
      \o <<"c", "a", "p", "i", "t", "a", "l">> \o <<" ">>
      \o <<"o", "f">> \o <<" ">>
      \o <<"F", "r", "a", "n", "c", "e">> \o <<" ">>
      \o <<"a", "n", "d">> \o <<" ">>
      \o <<"h", "o", "w">> \o <<" ">>
      \o <<"b", "i", "g">> \o <<" ">>
      \o <<"i", "s">> \o <<" ">>
      \o <<"i", "t">>

\* message contents a client may send: from no word to MaxWords words, with
\* single blanks or with blanks around and doubled between the words
SampleContents ==
    {Sentence(k, <<" ">>) : k \in 0..MaxWords}
        \cup {<<" ">> \o Sentence(k, <<" ", " ">>) \o <<" ">> : k \in 0..MaxWords}
        \cup {FranceMessage}

\* messages a checkpoint may hold
SampleMessages ==
    {HumanMessage(content) : content \in SampleContents}
        \cup {AIMessage(<<"a", " ", "b">>, <<>>), ToolMessage(<<"r">>, "call_2")}

RECURSIVE SeqsUpTo(_, _)
\* the sequences over S of length n at most
SeqsUpTo(S, n) ==
    IF n = 0 THEN {<<>>}
    ELSE LET shorter == SeqsUpTo(S, n - 1)
         IN  shorter \cup {Append(q, x) : q \in shorter, x \in S}

\* a store in which one thread holds a checkpoint with sample messages
InitList ==
    /\ \E t \in Threads, messages \in SeqsUpTo(SampleMessages, MaxMsgs) :
            db = put(setup(<<>>), t, messages, "end")
    /\ created = {}
    /\ pc = [c \in Calls |-> "idle"]
    /\ thread_id = [c \in Calls |-> NoThread]
    /\ message = [c \in Calls |-> <<>>]
    /\ state = [c \in Calls |-> <<>>]
    /\ output = [c \in Calls |-> <<>>]
    /\ node = [c \in Calls |-> "none"]
    /\ queue = [c \in Calls |-> <<>>]
    /\ hops = [c \in Calls |-> 0]
    /\ full_response = [c \in Calls |-> <<>>]
    /\ events = [c \in Calls |-> <<>>]
    /\ deleted = [t \in Threads |-> FALSE]
    /\ clean = [c \in Calls |-> TRUE]
    /\ loop = 0
    /\ calc_in = <<0, 0, "add">>
    /\ calc_out = Pending
    /\ listing = NotListed

\* GET /threads is called
get_threads_call ==
    /\ listing = NotListed
    /\ listing' = get_threads(db)
    /\ UNCHANGED <<db, created, callVars, deleted, loop, calc_in, calc_out>>

NextList == get_threads_call

SpecList == InitList /\ [][NextList]_vars

\* ----------------------------------------------------------------- claims

Terminal(e) == e.type \in {"complete", "error"}

RECURSIVE ChunkContents(_)
\* the contents of the chunk events of a stream, in emission order
ChunkContents(evs) ==
    IF evs = <<>> THEN <<>>
    ELSE (IF Head(evs).type = "chunk" THEN <<Head(evs).content>> ELSE <<>>)
            \o ChunkContents(Tail(evs))

Last(evs) == evs[Len(evs)]

\* the call has ended with a complete event
Completed(c) == events[c] # <<>> /\ Last(events[c]).type = "complete"

\* the call has ended with an error event
Failed(c) == events[c] # <<>> /\ Last(events[c]).type = "error"

\* C1: whenever a chat call has sent a complete event, the contents of the
\* chunk events it sent before, concatenated in emission order, are the
\* content of the complete event, however many tool hops the turn took.
C1_ChunksConcatToComplete ==
    \A c \in Calls : \A i \in 1..Len(events[c]) :
        events[c][i].type = "complete" =>
            Concat(ChunkContents(SubSeq(events[c], 1, i - 1))) = events[c][i].content

\* a completed turn with a tool hop: a chunk from the response that asked
\* for the tool and two chunks from the final answer
C1_Witness ==
    \E c \in Calls :
        /\ Completed(c)
        /\ ChunkContents(events[c]) = << <<"c">>, <<"a">>, <<"b">> >>
        /\ Last(events[c]).content = <<"c", "a", "b">>

\* C2: a chat call sends at most one terminal event, nothing after it, and
\* has sent exactly one once it has ended, be it by the end of the graph or
\* by an exception before the first chunk, between chunks or in the tools node.
C2_OneTerminalEventLast ==
    \A c \in Calls :
        /\ \A i \in 1..Len(events[c]) : Terminal(events[c][i]) => i = Len(events[c])
        /\ pc[c] = "done" <=> (events[c] # <<>> /\ Terminal(Last(events[c])))
        /\ pc[c] = "idle" => events[c] = <<>>

\* a turn that failed after it had sent chunks, and one that completed
C2_Witness ==
    /\ \E c \in Calls : Failed(c) /\ Len(events[c]) >= 2
    /\ \E c \in Calls : Completed(c)

\* the two calls were made one after the other on thread t, nothing else
\* touched the thread, and both have completed
TwoTurns(t) ==
    /\ thread_id[1] = t /\ thread_id[2] = t
    /\ clean[1] /\ clean[2]
    /\ Completed(1) /\ Completed(2)

\* C3: after M1 and then M2 were sent on a fresh thread and both turns have
\* completed, the history view is exactly user M1, assistant R1, user M2,
\* assistant R2, with R1 and R2 the contents of the complete events.
C3_RoundTripFourEntries ==
    \A t \in Threads :
        TwoTurns(t) =>
            get_thread_messages(db, t) =
                << [role |-> "user", content |-> message[1]],
                   [role |-> "assistant", content |-> Last(events[1]).content],
                   [role |-> "user", content |-> message[2]],
                   [role |-> "assistant", content |-> Last(events[2]).content] >>

\* C4: after a DELETE of a thread has answered success, and until a chat
\* call writes to the thread again, the history view of the thread is empty.
C4_DeletedThreadHasNoMessages ==
    \A t \in Threads : deleted[t] => get_thread_messages(db, t) = <<>>

\* a deleted thread on which a turn had completed and left rows
C4_Witness ==
    \E t \in Threads :
        /\ deleted[t]
        /\ \E c \in Calls : thread_id[c] = t /\ Completed(c)
        /\ Rows(db, "writes", t) # {}

\* no chat call was ever made on the thread id
NeverUsed(t) ==
    /\ \A c \in Calls : thread_id[c] # t
    /\ \A tb \in StoreTables : Rows(db, tb, t) = {}

\* C5: a DELETE, met by no storage fault, of a thread id that was never
\* used or that an earlier DELETE has already removed answers success,
\* changes nothing in the database and so nothing of any other thread.
C5_DeleteIdempotent ==
    [][\A t \in Threads :
          ((NeverUsed(t) \/ deleted[t]) /\ delete_thread_endpoint(t, "none")) =>
              /\ delete_thread(db, t, "none").success
              /\ deleted'[t]
              /\ db' = db
              /\ \A u \in Threads \ {t} : \A tb \in StoreTables :
                    Rows(db', tb, u) = Rows(db, tb, u)]_vars

\* a never-used id has been deleted with success while another thread holds
\* a checkpoint
C5_Witness ==
    \E t \in Threads :
        /\ deleted[t]
        /\ \A c \in Calls : thread_id[c] # t
        /\ \E u \in Threads \ {t} : Rows(db, "checkpoints", u) # {}

\* C6: after a DELETE of a thread has answered success, and until a chat
\* call writes to the thread again, no table the checkpoint store writes to
\* holds a row of that thread id.
C6_NoRowLeftAfterDelete ==
    \A t \in Threads :
        deleted[t] => \A tb \in StoreTables : Rows(db, tb, t) = {}

\* every chat call that is running on thread t in either state of the step
\* has run alone and without a DELETE of t
Undisturbed(t) ==
    \A c \in Calls :
        (thread_id'[c] = t /\ (Active(c) \/ Active(c)')) => clean'[c]

\* C7: a step of chat turns that run one after the other on a thread, with
\* no DELETE of the thread, only appends to the thread's stored messages:
\* what was stored before the step is a prefix of what is stored after it,
\* also when the turn ends with an error event.
C7_StoredMessagesOnlyGrow ==
    [][\A t \in Threads :
          \/ IsPrefix(load_conversation(db, t), load_conversation(db', t))
          \/ ~Undisturbed(t)
          \/ \E f \in Faults : delete_thread_endpoint(t, f)]_vars

\* a second turn on a thread ended with an error after the first completed,
\* and the thread holds the first turn and the second user message
C7_Witness ==
    \E t \in Threads :
        /\ thread_id[1] = t /\ thread_id[2] = t
        /\ clean[1] /\ clean[2]
        /\ Completed(1) /\ Failed(2)
        /\ Len(load_conversation(db, t)) >= 3

\* the places of the stored messages the history view is to show
Displayed(stored) ==
    {i \in 1..Len(stored) :
        \/ stored[i].type = "human"
        \/ stored[i].type = "ai" /\ stored[i].content # <<>>}

\* C8: the history view holds one entry per stored user message and per
\* stored assistant message with content, in stored order, with the
\* message's content, and nothing else.
C8_HistoryViewFilter ==
    \A t \in Threads :
        LET stored == load_conversation(db, t)
            shown == get_thread_messages(db, t)
            D == Displayed(stored)
        IN  /\ Len(shown) = Cardinality(D)
            /\ \A i \in D :
                 shown[Cardinality({j \in D : j <= i})] =
                    [role |-> IF stored[i].type = "human" THEN "user" ELSE "assistant",
                     content |-> stored[i].content]
            /\ \A k \in 1..Len(shown) :
                 /\ shown[k].role \in {"user", "assistant"}
                 /\ shown[k].role = "assistant" => shown[k].content # <<>>

\* a thread that stores a tool message and an assistant message without
\* content, and whose view is not empty
C8_Witness ==
    \E t \in Threads :
        LET stored == load_conversation(db, t)
        IN  /\ \E i \in 1..Len(stored) : stored[i].type = "tool"
            /\ \E i \in 1..Len(stored) :
                 stored[i].type = "ai" /\ stored[i].content = <<>>
            /\ Len(get_thread_messages(db, t)) >= 2

\* a thread id handed out by POST /threads and not used reads as a new chat
ReadsAsNew(t) ==
    /\ get_thread_messages(db, t) = <<>>
    /\ LET listed == get_threads(db)
       IN  \A i \in 1..Len(listed) :
              listed[i].thread_id = t => listed[i].name = NewChat

\* C9: POST /threads writes nothing to the database, and an id it handed
\* out on which no chat call was made has an empty history view and is
\* either not listed or listed as "New Chat".
C9_CreateThreadNoSideEffect ==
    /\ [][created' \ created # {} => (create_thread /\ db' = db)]_vars
    /\ [](\A t \in created : ReadsAsNew(t))

\* an id has been handed out while the store holds another thread
C9_Witness ==
    \E t \in created :
        /\ ReadsAsNew(t)
        /\ \E u \in Threads \ {t} : Rows(db, "checkpoints", u) # {}

\* C10: the calculator returns a structured value for every argument
\* triple: the division-by-zero error for div with second_num = 0, the
\* unsupported-operation error naming the operation outside add, sub, mul
\* and div, and otherwise the exact sum, difference, product or quotient.
C10_CalculatorTotalAndCorrect ==
    calc_out # Pending =>
        LET a == calc_in[1]
            b == calc_in[2]
            op == calc_in[3]
        IN  IF op \notin {"add", "sub", "mul", "div"}
            THEN calc_out = [error |-> "Unsupported operation '" \o op \o "'"]
            ELSE IF op = "div" /\ b = 0
            THEN calc_out = [error |-> "Division by zero"]
            ELSE /\ DOMAIN calc_out = {"result"}
                 /\ op = "add" => calc_out.result - b = a
                 /\ op = "sub" => calc_out.result + b = a
                 /\ op = "mul" => calc_out.result = a * b
                 /\ op = "div" => /\ calc_out.result.den > 0
                                  /\ calc_out.result.num * b = a * calc_out.result.den

\* the calculator has answered a division by zero
C10_Witness ==
    /\ calc_in[3] = "div" /\ calc_in[2] = 0
    /\ calc_out = [error |-> "Division by zero"]

\* the place of the first user message of a conversation, 0 when it has none
FirstUser(messages) ==
    LET H == {j \in 1..Len(messages) : messages[j].type = "human"}
    IN  IF H = {} THEN 0 ELSE CHOOSE j \in H : \A k \in H : j <= k

\* words are the whitespace-separated words of content, in order
WordsOf(words, content) ==
    /\ \A i \in 1..Len(words) :
          words[i] # <<>> /\ \A j \in 1..Len(words[i]) : words[i][j] # " "
    /\ Concat(words) = SelectSeq(content, LAMBDA ch : ch # " ")

\* C11: every listed thread is named by the first five whitespace-separated
\* words of its first user message, joined by single blanks, followed by
\* "..." exactly when that message has more than five words, and "New Chat"
\* when it has no user message; the messages stored after the first user
\* message do not change the name.
C11_ThreadName ==
    listing # NotListed =>
        \A i \in 1..Len(listing) :
            LET messages == load_conversation(db, listing[i].thread_id)
                first == FirstUser(messages)
            IN  IF first = 0
                THEN listing[i].name = <<"N", "e", "w", " ", "C", "h", "a", "t">>
                ELSE LET words == split(messages[first].content)
                         kept == SubSeq(words, 1, IF Len(words) > 5 THEN 5 ELSE Len(words))
                     IN  /\ WordsOf(words, messages[first].content)
                         /\ listing[i].name =
                                join(<<" ">>, kept)
                                    \o (IF Len(words) > 5 THEN <<".", ".", ".">> ELSE <<>>)
                         /\ \A k \in first..Len(messages) :
                                get_thread_name(SubSeq(messages, 1, k)) = listing[i].name

\* a listed thread whose first user message has six words, padded with
\* blanks, and is followed by a user message of other words
C11_Witness ==
    /\ listing # NotListed
    /\ \E i \in 1..Len(listing) :
          LET messages == load_conversation(db, listing[i].thread_id)
          IN  /\ Len(messages) = 2
              /\ messages[1] = HumanMessage(<<" ">> \o Sentence(6, <<" ", " ">>) \o <<" ">>)
              /\ messages[2] = HumanMessage(Sentence(2, <<" ">>))
              /\ listing[i].name = Sentence(5, <<" ">>) \o <<".", ".", ".">>

\* the listed thread's first user message is the eleven-word message
FranceFirst(i) ==
    LET messages == load_conversation(db, listing[i].thread_id)
    IN  FirstUser(messages) # 0 /\ messages[FirstUser(messages)].content = FranceMessage

\* C12, as stated: a thread whose first user message is "What is the
\* capital of France and how big is it" is listed with the name "What is
\* the capital of France...".
C12_NameSixWords ==
    listing # NotListed =>
        \A i \in 1..Len(listing) :
            FranceFirst(i) =>
                listing[i].name =
                    <<"W", "h", "a", "t", " ", "i", "s", " ", "t", "h", "e", " ",
                      "c", "a", "p", "i", "t", "a", "l", " ", "o", "f", " ", "F",
                      "r", "a", "n", "c", "e", ".", ".", ".">>

\* C12, amended: a thread whose first user message is "What is the capital
\* of France and how big is it" is listed with the name "What is the
\* capital of...", its first five words and the ellipsis.
C12_NameFiveWords ==
    listing # NotListed =>
        \A i \in 1..Len(listing) :
            FranceFirst(i) =>
                listing[i].name =
                    <<"W", "h", "a", "t", " ", "i", "s", " ", "t", "h", "e", " ",
                      "c", "a", "p", "i", "t", "a", "l", " ", "o", "f", ".", ".",
                      ".">>

\* the eleven-word message, stored after an assistant message, has been listed
C12_Witness ==
    /\ listing # NotListed
    /\ \E i \in 1..Len(listing) :
          /\ FranceFirst(i)
          /\ Len(load_conversation(db, listing[i].thread_id)) = 2
          /\ load_conversation(db, listing[i].thread_id)[1].type = "ai"

\* C13: the graph starts a run at chat_node; when chat_node has finished,
\* the run goes on to tools if and only if the assistant message it added
\* carries a tool call, and otherwise reaches END, where the complete event
\* is sent; when tools has finished the run always goes back to chat_node.
\* A run that an exception ends is outside the policy.
C13_RoutingPolicy ==
    [][\A c \in Calls :
          /\ (pc[c] = "idle" /\ pc'[c] # "idle") => pc'[c] = "chat_node"
          /\ (pc[c] \in {"chat_node", "tools"} /\ pc'[c] # pc[c] /\ ~Failed(c)') =>
                pc'[c] = "stream" /\ node'[c] = pc[c]
          /\ (pc[c] = "stream" /\ pc'[c] # "stream" /\ ~Failed(c)') =>
                IF node[c] = "chat_node"
                THEN LET asked == output[c][Len(output[c])].tool_calls # <<>>
                     IN  /\ asked <=> pc'[c] = "tools"
                         /\ ~asked <=> (pc'[c] = "done" /\ Completed(c)')
                ELSE node[c] = "tools" /\ pc'[c] = "chat_node"]_vars

\* a run is at chat_node again after tools has run
C13_Witness ==
    \E c \in Calls : pc[c] = "chat_node" /\ hops[c] > 0 /\ Len(state[c]) >= 3

\* a chat call has ended and none is running on the thread
AtRest(t) ==
    /\ \E c \in Calls : thread_id[c] = t /\ pc[c] = "done"
    /\ \A c \in Calls : thread_id[c] = t => ~Active(c)

\* every tool call of an assistant message is followed by a tool message
\* with the call's id
NoDangling(messages) ==
    \A i \in 1..Len(messages) : \A k \in 1..Len(messages[i].tool_calls) :
        \E j \in (i + 1)..Len(messages) :
            /\ messages[j].type = "tool"
            /\ messages[j].tool_call_id = messages[i].tool_calls[k].id

\* C14: once a chat call on a thread has ended, with complete or with
\* error, and no call is running on the thread, the thread's checkpoint
\* holds no assistant message with a tool call that no later tool message
\* answers.
C14_NoDanglingToolCall ==
    \A t \in Threads : AtRest(t) => NoDangling(load_conversation(db, t))

\* the model's response of the step has no tool call
ReturnedFinal(c) ==
    pc[c] = "stream" /\ node[c] = "chat_node" /\ output[c][1].tool_calls = <<>>

\* the model's response of the step asks for a tool
AskedTool(c) ==
    pc[c] = "stream" /\ node[c] = "chat_node" /\ output[c][1].tool_calls # <<>>

FinalAnswers(stored) ==
    {i \in 1..Len(stored) : stored[i].type = "ai" /\ stored[i].tool_calls = <<>>}

\* C16: when two chat calls that ran at the same time on one thread have
\* both sent the complete event, the thread's stored messages hold both
\* user messages and both final answers.
C16_NoLostUpdate ==
    \A t \in Threads :
        (/\ thread_id[1] = t /\ thread_id[2] = t
         /\ ~clean[1] /\ ~clean[2]
         /\ Completed(1) /\ Completed(2)) =>
            LET stored == load_conversation(db, t)
            IN  /\ \A c \in Calls :
                      \E i \in 1..Len(stored) : stored[i] = HumanMessage(message[c])
                /\ Cardinality(FinalAnswers(stored)) >= 2

\* the step is one of a chat call on thread b
TurnStepOn(b) ==
    \E c \in Calls :
        /\ thread_id'[c] = b
        /\ <<pc[c], state[c], output[c]>> # <<pc'[c], state'[c], output'[c]>>

\* the messages call c passes to the model came from calls on its thread
InputIsOwn(c) ==
    /\ \A i \in 1..Len(state[c]) :
          state[c][i].type = "human" =>
              \E k \in Calls :
                  /\ thread_id[k] = thread_id[c]
                  /\ state[c][i].content = message[k]
    /\ clean[c] => state[c] = load_conversation(db, thread_id[c])

\* C17: a step changes the stored messages of a thread only if it is a
\* step of a chat call on that thread or a DELETE of that thread, whatever
\* runs on other threads in between; and the messages a call passes to the
\* model are its thread's: the user messages in them were sent on that
\* thread, and they are the thread's stored messages when no other call
\* and no DELETE touched the thread during the call.
C17_ThreadsIsolated ==
    /\ [][\A b \in Threads :
             \/ load_conversation(db', b) = load_conversation(db, b)
             \/ TurnStepOn(b)
             \/ \E f \in Faults : delete_thread_endpoint(b, f)]_vars
    /\ [](\A c \in Calls : pc[c] = "chat_node" => InputIsOwn(c))

\* a call is about to pass its thread's messages to the model a second
\* time while a call on the other thread is streaming
C17_Witness ==
    \E c \in Calls, k \in Calls :
        /\ thread_id[c] # thread_id[k]
        /\ pc[c] = "chat_node" /\ hops[c] > 0
        /\ pc[k] = "stream"
        /\ load_conversation(db, thread_id[k]) # <<>>

\* the tables of the delete loop that the store has
Present(d) == {i \in 1..Len(tables) : tables[i] \in DOMAIN d}

\* C18: delete_thread skips the tables that are missing, removes the
\* thread's rows from every table of its list that exists, touches no
\* other row and returns success; when a statement on an existing table or
\* the commit raises another fault it returns failure.
C18_DeleteSkipsMissingTable ==
    \A t \in Threads : \A f \in Faults :
        LET r == delete_thread(db, t, f)
        IN  /\ f = "none" =>
                  /\ r.success
                  /\ DOMAIN r.db = DOMAIN db
                  /\ \A i \in Present(db) : Rows(r.db, tables[i], t) = {}
                  /\ \A tb \in DOMAIN db : \A u \in Threads :
                        (u # t \/ \A i \in Present(db) : tables[i] # tb) =>
                            Rows(r.db, tb, u) = Rows(db, tb, u)
            /\ (f = "commit" \/ (f = "statement" /\ Present(db) # {})) => ~r.success
            /\ (f = "statement" /\ Present(db) = {}) => r.success /\ r.db = db

\* a DELETE has answered success on a store that lacks two tables of the
\* list and held a checkpoint of the thread; another thread keeps its own
C18_Witness ==
    \E t \in Threads :
        /\ deleted[t]
        /\ Present(db) = {1}
        /\ Rows(db, "checkpoints", t) = {}
        /\ \E c \in Calls : thread_id[c] = t /\ pc[c] # "idle"
        /\ \E u \in Threads \ {t} : Rows(db, "checkpoints", u) # {}

ChatStartsOn(t) ==
    \E c \in Calls : pc[c] = "idle" /\ pc'[c] # "idle" /\ thread_id'[c] = t

\* C20: once a DELETE of a thread has answered success, and as long as no
\* chat call begins on the thread, the thread is not listed and its
\* history view is empty, also when a chat call on the thread was running
\* when the DELETE was made.
C20_DeletedStaysDeleted ==
    [][\A t \in Threads :
          (deleted[t] /\ ~ChatStartsOn(t)) =>
              /\ t \notin retrieve_all_threads(db')
              /\ get_thread_messages(db', t) = <<>>]_vars

====
